---- MODULE Spec2Model ----
(***************************************************************************)
(* Model of source/helpers/components/codeExample.ts: generateCodeExample  *)
(* and its helpers getPaddings, getPadding, getTotalPadding, getCanSplit.  *)
(*                                                                         *)
(* A JavaScript string is a non-empty sequence of lines (the pieces        *)
(* between "\n"); a line is a sequence of one-character strings.  The      *)
(* empty string is the single empty line.  `undefined` is the sequence of  *)
(* no lines, which no string is.                                           *)
(***************************************************************************)
EXTENDS Integers, Sequences, FiniteSets

\* ---------------------------------------------------------------- bounds
MaxLines == 4        \* raw inputs: any sequence of at most this many lines
MaxSections == 3     \* composed inputs: sections per block
WideLen == 60        \* length of the long line used in inputs

\* ---------------------------------------------------------------- strings
\* generateCodeExample reads splitContents[0], [1] and [2]: three blocks
BlocksRead == 3

Undefined == <<>>
EmptyString == << <<>> >>

VariantSeparator == <<"=", "=", "=">>
SectionSeparator == <<"-", "-", "-">>

Rep(c, n) == [k \in 1..n |-> c]

Max2(a, b) == IF a >= b THEN a ELSE b

\* !x for a value of type string | undefined
Falsy(s) == s = Undefined \/ s = EmptyString

\* x || ''
OrEmpty(s) == IF Falsy(s) THEN EmptyString ELSE s

\* arr[i], i counted from 0
Index(arr, i) == IF i + 1 <= Len(arr) THEN arr[i + 1] ELSE Undefined

\* arr.slice(i), i counted from 0
Slice(arr, i) == SubSeq(arr, i + 1, Len(arr))

\* str.split('\n' + sep + '\n'): a line equal to sep cuts the string when it
\* has a line before it in the current piece and a line after it; the two
\* newlines around it are consumed, so the line next to a cut never cuts.
RECURSIVE SplitFrom(_, _, _)
SplitFrom(str, sep, start) ==
  LET n == Len(str)
      cuts == {i \in (start + 1)..(n - 1) : str[i] = sep}
  IN IF cuts = {}
       THEN << SubSeq(str, start, n) >>
       ELSE LET i == CHOOSE c \in cuts : \A d \in cuts : c <= d
            IN << SubSeq(str, start, i - 1) >> \o SplitFrom(str, sep, i + 1)

Split(str, sep) == SplitFrom(str, sep, 1)

IsBlank(line) == \A k \in 1..Len(line) : line[k] = " "

TrimStartLine(line) ==
  LET f == CHOOSE k \in 1..Len(line) :
             line[k] # " " /\ \A j \in 1..(k - 1) : line[j] = " "
  IN SubSeq(line, f, Len(line))

TrimEndLine(line) ==
  LET l == CHOOSE k \in 1..Len(line) :
             line[k] # " " /\ \A j \in (k + 1)..Len(line) : line[j] = " "
  IN SubSeq(line, 1, l)

\* str.trim(): spaces and newlines are removed from both ends
Trim(str) ==
  IF \A n \in 1..Len(str) : IsBlank(str[n])
    THEN EmptyString
    ELSE LET first == CHOOSE n \in 1..Len(str) :
                        ~IsBlank(str[n]) /\ \A m \in 1..(n - 1) : IsBlank(str[m])
             last == CHOOSE n \in 1..Len(str) :
                        ~IsBlank(str[n]) /\ \A m \in (n + 1)..Len(str) : IsBlank(str[m])
             body == SubSeq(str, first, last)
         IN [k \in 1..Len(body) |->
               LET l1 == IF k = 1 THEN TrimStartLine(body[k]) ELSE body[k]
               IN IF k = Len(body) THEN TrimEndLine(l1) ELSE l1]

\* contents?.split('\n---\n').map((str) => str.trim()) ?? []
SplitSections(c) ==
  IF c = Undefined
    THEN <<>>
    ELSE LET parts == Split(c, SectionSeparator)
         IN [k \in 1..Len(parts) |-> Trim(parts[k])]

\* (examples[i] || '').split('\n').length
Lines(examples, i) == Len(OrEmpty(Index(examples, i)))

\* ---------------------------------------------------------------- numbers
\* Math.max() of no arguments is -Infinity; every width is >= 0, so the
\* value below stands for -Infinity and the operators that follow give
\* JavaScript's arithmetic on it.
NegInfinity == -1

SetMax(S) == CHOOSE x \in S : \A y \in S : x >= y

\* Math.max(...lengths)
MathMax(S) == IF S = {} THEN NegInfinity ELSE SetMax(S)

\* a + b
Plus(a, b) == IF a = NegInfinity \/ b = NegInfinity THEN NegInfinity ELSE a + b

\* a < k for a finite k
LessThan(a, k) == a = NegInfinity \/ a < k

\* Boolean(a) for a number
Truthy(a) == a # 0

\* A number | null of the result is a record: kind "null", "number" (the
\* value is num / 220, exactly) or "Infinity".
Null == [kind |-> "null", num |-> 0]
Number220(n) == [kind |-> "number", num |-> n]
Infinity == [kind |-> "Infinity", num |-> 0]

\* ---------------------------------------------------------------- helpers
\* sum over i of max(lines of sections1[i], lines of sections2[i]) + 2
RECURSIVE TotalFrom(_, _, _)
TotalFrom(sections1, sections2, i) ==
  IF i >= Max2(Len(sections1), Len(sections2))
    THEN 0
    ELSE Max2(Lines(sections1, i), Lines(sections2, i)) + 2
         + TotalFrom(sections1, sections2, i + 1)

getTotalPadding(sections1, sections2) == TotalFrom(sections1, sections2, 0)

getPadding_NoTail(isLastSection, comparisonA, comparisonB, lines, maxLines) ==
  Max2(IF maxLines > lines THEN maxLines - lines ELSE 0, 0)

getPadding(isLastSection, comparisonA, comparisonB, lines, maxLines) ==
  LET padding ==
        IF isLastSection
          THEN getTotalPadding(comparisonA, comparisonB) - lines - 2
          ELSE IF maxLines > lines THEN maxLines - lines ELSE 0
  IN Max2(padding, 0)

maxSections_SourceOnly(scssExamples, sassExamples, cssExamples) ==
  Max2(Len(scssExamples), Len(sassExamples))

maxSections(scssExamples, sassExamples, cssExamples) ==
  Max2(Len(scssExamples), Max2(Len(sassExamples), Len(cssExamples)))

\* i === examples.length - 1
isLastSection(examples, i) == i = Len(examples) - 1

maxLines_WithLast(scssExamples, sassExamples, cssExamples, i) ==
  Max2(Lines(scssExamples, i),
       Max2(Lines(sassExamples, i), Lines(cssExamples, i)))

maxLines(scssExamples, sassExamples, cssExamples, i) ==
  Max2(IF isLastSection(scssExamples, i) THEN 0 ELSE Lines(scssExamples, i),
       Max2(IF isLastSection(sassExamples, i) THEN 0 ELSE Lines(sassExamples, i),
            IF isLastSection(cssExamples, i) THEN 0 ELSE Lines(cssExamples, i)))

getPaddings(scssExamples, sassExamples, cssExamples) ==
  LET n == maxSections(scssExamples, sassExamples, cssExamples)
      ml(i) == maxLines(scssExamples, sassExamples, cssExamples, i)
  IN [scssPaddings |->
        [k \in 1..n |->
           getPadding(isLastSection(scssExamples, k - 1),
                      Slice(sassExamples, k - 1), Slice(cssExamples, k - 1),
                      Lines(scssExamples, k - 1), ml(k - 1))],
      sassPaddings |->
        [k \in 1..n |->
           getPadding(isLastSection(sassExamples, k - 1),
                      Slice(scssExamples, k - 1), Slice(cssExamples, k - 1),
                      Lines(sassExamples, k - 1), ml(k - 1))],
      cssPaddings |->
        [k \in 1..n |->
           getPadding(isLastSection(cssExamples, k - 1),
                      Slice(scssExamples, k - 1), Slice(sassExamples, k - 1),
                      Lines(cssExamples, k - 1), ml(k - 1))]]

\* examples.flatMap((source) => source.split('\n').map((line) => line.length))
LineLengths(examples) ==
  UNION {{Len(examples[k][j]) : j \in 1..Len(examples[k])} :
           k \in 1..Len(examples)}

getCanSplit(scssExamples, sassExamples, cssExamples) ==
  LET source == MathMax(LineLengths(scssExamples \o sassExamples))
      css == MathMax(LineLengths(cssExamples))
  IN [canSplit |-> Truthy(css) /\ LessThan(Plus(source, css), 110),
      maxSourceWidth |-> source,
      maxCSSWidth |-> css]

splitLocation_Unguarded(canSplit, source, css) ==
  IF LessThan(source, 55) /\ LessThan(css, 55)
    THEN Number220(11000)
    ELSE IF css = NegInfinity THEN Infinity
         ELSE Number220(110 + 100 * (source - css))

\* lines 118-126: 0.5 * 100 is 11000/220, and
\* (the source width is never -Infinity: a syntax block is always present)
\* 0.5 + ((source - css) / 110.0 / 2) * 100 is (110 + 100 (source - css))/220
splitLocation(canSplit, source, css) ==
  IF ~canSplit
    THEN Null
    ELSE IF LessThan(source, 55) /\ LessThan(css, 55)
           THEN Number220(11000)
           ELSE IF css = NegInfinity THEN Infinity
                ELSE Number220(110 + 100 * (source - css))

\* ---------------------------------------------------------------- inputs
A == <<"a">>
Wide == Rep("a", WideLen)

LineSet ==
  {<<>>, <<" ">>, <<" ", "a", " ">>, A, Wide, VariantSeparator, SectionSeparator}

RawContents == UNION {[1..n -> LineSet] : n \in 1..MaxLines}

RECURSIVE JoinWith(_, _)
JoinWith(parts, sep) ==
  IF Len(parts) = 1
    THEN parts[1]
    ELSE parts[1] \o <<sep>> \o JoinWith(Tail(parts), sep)

SectionTexts == {<<A>>, <<A, A>>}

BlockTexts ==
  UNION {{JoinWith(f, SectionSeparator) : f \in [1..n -> SectionTexts]} :
           n \in 1..MaxSections}

ComposedContents ==
  UNION {{JoinWith(g, VariantSeparator) : g \in [1..b -> BlockTexts]} :
           b \in 1..BlocksRead}

\* what sass.compileString(...).css may return
CompilerOutputs == {EmptyString, <<A>>, <<A, A>>, <<Wide>>}

\* ---------------------------------------------------------------- state
VARIABLES contents, autogenCSS, syntax, pc, error,
          scssContents, sassContents, cssContents,
          scssExamples, sassExamples, compileCalls, maxWidths, layout

vars == <<contents, autogenCSS, syntax, pc, error,
          scssContents, sassContents, cssContents,
          scssExamples, sassExamples, compileCalls, maxWidths, layout>>

Init ==
  /\ contents \in RawContents \cup ComposedContents
  /\ autogenCSS \in BOOLEAN
  /\ syntax \in {"scss", "sass", "null"}
  /\ pc = "parse"
  /\ error = "none"
  /\ scssContents = Undefined
  /\ sassContents = Undefined
  /\ cssContents = Undefined
  /\ scssExamples = <<>>
  /\ sassExamples = <<>>
  /\ compileCalls = <<>>
  /\ maxWidths = [maxSourceWidth |-> 0, maxCSSWidth |-> 0]
  /\ layout = <<>>

switchSyntax_CheckAfterSwitch(syn, splitContents) ==
  LET sass == IF syn = "sass" THEN Index(splitContents, 0)
              ELSE IF syn = "scss" THEN Undefined ELSE Index(splitContents, 1)
  IN [scss |-> IF syn = "sass" THEN Undefined ELSE Index(splitContents, 0),
      sass |-> sass,
      css |-> IF syn = "null" THEN Index(splitContents, 2)
              ELSE Index(splitContents, 1),
      throws |-> Falsy(sass)]

\* the switch on syntax, lines 70-87
switchSyntax(syn, splitContents) ==
  IF syn = "scss"
    THEN [scss |-> Index(splitContents, 0), sass |-> Undefined,
          css |-> Index(splitContents, 1), throws |-> FALSE]
    ELSE IF syn = "sass"
      THEN [scss |-> Undefined, sass |-> Index(splitContents, 0),
            css |-> Index(splitContents, 1), throws |-> FALSE]
      ELSE [scss |-> Index(splitContents, 0), sass |-> Index(splitContents, 1),
            css |-> Index(splitContents, 2),
            throws |-> Falsy(Index(splitContents, 1))]

\* lines 67-92
ParseBlocks ==
  /\ pc = "parse"
  /\ LET blocks == switchSyntax(syntax, Split(contents, VariantSeparator))
     IN IF blocks.throws
          THEN /\ pc' = "failed"
               /\ error' = "MalformedInput"
               /\ UNCHANGED <<scssContents, sassContents, cssContents,
                              scssExamples, sassExamples>>
          ELSE /\ pc' = "resolve"
               /\ error' = error
               /\ scssContents' = blocks.scss
               /\ sassContents' = blocks.sass
               /\ cssContents' = blocks.css
               /\ scssExamples' = SplitSections(blocks.scss)
               /\ sassExamples' = SplitSections(blocks.sass)
  /\ UNCHANGED <<contents, autogenCSS, syntax, compileCalls, maxWidths, layout>>

\* line 95
autogenSections(scss, scssEx, sassEx) == IF ~Falsy(scss) THEN scssEx ELSE sassEx

refusesAutogen_OnlyEmpty(sections) == Len(sections) < 1

\* line 96
refusesAutogen(sections) == Len(sections) # 1

\* line 100
compilerSyntax(syn) == IF syn = "sass" THEN "indented" ELSE "scss"

\* lines 94-102
ResolveCSS ==
  /\ pc = "resolve"
  /\ IF Falsy(cssContents) /\ autogenCSS
       THEN LET sections == autogenSections(scssContents, scssExamples, sassExamples)
            IN IF refusesAutogen(sections)
                 THEN /\ pc' = "failed"
                      /\ error' = "CannotAutoGenerate"
                      /\ UNCHANGED <<cssContents, compileCalls>>
                 ELSE \/ \E out \in CompilerOutputs :
                           /\ compileCalls' = Append(compileCalls,
                                [text |-> sections[1],
                                 syntax |-> compilerSyntax(syntax),
                                 css |-> out])
                           /\ cssContents' = out
                           /\ pc' = "layout"
                           /\ error' = error
                      \/ /\ compileCalls' = Append(compileCalls,
                                [text |-> sections[1],
                                 syntax |-> compilerSyntax(syntax),
                                 css |-> Undefined])
                         /\ pc' = "failed"
                         /\ error' = "CompileError"
                         /\ UNCHANGED cssContents
       ELSE /\ pc' = "layout"
            /\ UNCHANGED <<error, cssContents, compileCalls>>
  /\ UNCHANGED <<contents, autogenCSS, syntax, scssContents, sassContents,
                 scssExamples, sassExamples, maxWidths, layout>>

\* lines 104-137
AssembleLayout ==
  /\ pc = "layout"
  /\ LET cssExamples == SplitSections(cssContents)
         paddings == getPaddings(scssExamples, sassExamples, cssExamples)
         split == getCanSplit(scssExamples, sassExamples, cssExamples)
     IN /\ maxWidths' = [maxSourceWidth |-> split.maxSourceWidth,
                         maxCSSWidth |-> split.maxCSSWidth]
        /\ layout' = << [scss |-> scssExamples,
                         sass |-> sassExamples,
                         css |-> cssExamples,
                         scssPaddings |-> paddings.scssPaddings,
                         sassPaddings |-> paddings.sassPaddings,
                         cssPaddings |-> paddings.cssPaddings,
                         canSplit |-> split.canSplit,
                         splitLocation |->
                           splitLocation(split.canSplit, split.maxSourceWidth,
                                         split.maxCSSWidth)] >>
  /\ pc' = "done"
  /\ UNCHANGED <<contents, autogenCSS, syntax, error, scssContents, sassContents,
                 cssContents, scssExamples, sassExamples, compileCalls>>

Next == ParseBlocks \/ ResolveCSS \/ AssembleLayout

Spec == Init /\ [][Next]_vars

TypeOK ==
  /\ pc \in {"parse", "resolve", "layout", "done", "failed"}
  /\ error \in {"none", "MalformedInput", "CannotAutoGenerate", "CompileError"}
  /\ Len(layout) <= 1
  /\ (pc = "done") = (layout # <<>>)
  /\ (pc = "failed") = (error # "none")

\* ---------------------------------------------------------------- properties
\* the Layout returned by a successful render
L == layout[1]

Returned == pc = "done"

\* the three variants of the Layout: own sections and paddings, and the
\* sections of the two other variants
Variants ==
  {[s |-> L.scss, p |-> L.scssPaddings, a |-> L.sass, b |-> L.css],
   [s |-> L.sass, p |-> L.sassPaddings, a |-> L.scss, b |-> L.css],
   [s |-> L.css, p |-> L.cssPaddings, a |-> L.scss, b |-> L.sass]}

LongestSectionSet == Max2(Len(L.scss), Max2(Len(L.sass), Len(L.css)))

\* C1 as stated: after a successful render every PaddingTable has as many
\* entries as its own variant's SectionSet.
C1_OwnLength ==
  Returned => \A v \in Variants : Len(v.p) = Len(v.s)

\* C1 amended: after a successful render every PaddingTable has as many
\* entries as the longest of the three SectionSets.
C1_LongestLength ==
  Returned => \A v \in Variants : Len(v.p) = LongestSectionSet

C1_Witness ==
  /\ Returned
  /\ Len(L.scss) = 2 /\ Len(L.sass) = 1 /\ L.css = <<>>
  /\ Len(L.scssPaddings) = 2 /\ Len(L.sassPaddings) = 2 /\ Len(L.cssPaddings) = 2

\* C2: canSplit holds exactly when the CSS width is nonzero and the two
\* widths sum to less than 110, and a render whose compiled-output
\* SectionSet is empty has canSplit false and splitLocation null.
C2_NoSplitWithoutCSS ==
  Returned =>
    /\ L.canSplit =
         (maxWidths.maxCSSWidth # 0
          /\ LessThan(Plus(maxWidths.maxSourceWidth, maxWidths.maxCSSWidth), 110))
    /\ (L.css = <<>> => ~L.canSplit /\ L.splitLocation = Null)

\* C3: when canSplit holds, splitLocation is 50 if both widths are under 55
\* and 50 + ((source - css) / 110 / 2) * 100 otherwise, a value in 0..100.
C3_SplitLocationValue ==
  (Returned /\ L.canSplit) =>
    LET source == maxWidths.maxSourceWidth
        css == maxWidths.maxCSSWidth
    IN /\ L.splitLocation =
            (IF source < 55 /\ css < 55
               THEN Number220(11000)
               ELSE Number220(11000 + 100 * (source - css)))
       /\ L.splitLocation.num >= 0
       /\ L.splitLocation.num <= 22000

\* line count of the section at index i (from 0), 0 when there is none
SectionLines(sections, i) == IF i < Len(sections) THEN Len(sections[i + 1]) ELSE 0

\* rendered height of the sections of two variants from index i onward
RECURSIVE RemainingHeight(_, _, _)
RemainingHeight(sectionsA, sectionsB, i) ==
  IF i >= Max2(Len(sectionsA), Len(sectionsB))
    THEN 0
    ELSE Max2(SectionLines(sectionsA, i), SectionLines(sectionsB, i)) + 2
         + RemainingHeight(sectionsA, sectionsB, i + 1)

IsShorter(v) == Len(v.s) > 0 /\ Len(v.s) < Max2(Len(v.a), Len(v.b))

\* C4 as stated: the last section of a variant with fewer sections than
\* another has padding + lines >= the remaining height of the others.
C4_TailCoversHeight ==
  Returned =>
    \A v \in Variants :
      IsShorter(v) =>
        v.p[Len(v.s)] + Len(v.s[Len(v.s)])
          >= RemainingHeight(v.a, v.b, Len(v.s) - 1)

\* C4 amended: the last section of a variant with fewer sections than
\* another has padding + lines + 2 >= the remaining height of the others.
C4_TailCoversHeightLessTwo ==
  Returned =>
    \A v \in Variants :
      IsShorter(v) =>
        v.p[Len(v.s)] + Len(v.s[Len(v.s)]) + 2
          >= RemainingHeight(v.a, v.b, Len(v.s) - 1)

C4_Witness ==
  /\ Returned
  /\ \E v \in Variants :
       /\ IsShorter(v)
       /\ v.p[Len(v.s)] > 0
       /\ v.p[Len(v.s)] + Len(v.s[Len(v.s)]) + 2
            = RemainingHeight(v.a, v.b, Len(v.s) - 1)

splitInput == Split(contents, VariantSeparator)

HasVariantSeparator == Len(splitInput) > 1

Parsed == pc # "parse"

SingleSyntaxWholeInput ==
  (Returned /\ syntax # "null" /\ ~HasVariantSeparator) =>
    /\ (syntax = "scss" => L.scss = SplitSections(contents) /\ L.sass = <<>>)
    /\ (syntax = "sass" => L.sass = SplitSections(contents) /\ L.scss = <<>>)

\* C5 as stated: the malformed-input error is raised exactly in dual-syntax
\* mode on an input without a === line; a single-syntax render of an input
\* without === returns the whole input as the selected syntax's SectionSet.
C5_MalformedIffNoSeparator ==
  Parsed =>
    /\ (error = "MalformedInput") = (syntax = "null" /\ ~HasVariantSeparator)
    /\ SingleSyntaxWholeInput

\* C5 amended: the malformed-input error is raised exactly in dual-syntax
\* mode on an input without a === line or with nothing between the first
\* === line and the next one (or the end of the input).
C5_MalformedIffNoSecondBlock ==
  Parsed =>
    /\ (error = "MalformedInput") =
         (syntax = "null"
          /\ (~HasVariantSeparator \/ splitInput[2] = EmptyString))
    /\ SingleSyntaxWholeInput

C5_Witness ==
  /\ pc = "failed" /\ error = "MalformedInput" /\ syntax = "null"
  /\ HasVariantSeparator /\ splitInput[2] = EmptyString

\* the compiled-output block of the input
SuppliedCSS == Index(splitInput, IF syntax = "null" THEN 2 ELSE 1)

\* the SectionSet of the designated source syntax
Designated == IF syntax = "sass" THEN sassExamples ELSE scssExamples

\* C6: once the blocks are parsed, with no compiled-output block, with
\* auto-derivation requested and more than one designated source Section,
\* the render fails with the cannot-auto-generate error, the compiler is
\* never called and no Layout is returned.
C6_RefusesSeveralSections ==
  (Parsed /\ error # "MalformedInput" /\ Falsy(SuppliedCSS) /\ autogenCSS
   /\ Len(Designated) > 1) =>
    /\ compileCalls = <<>>
    /\ layout = <<>>
    /\ (pc # "resolve" => pc = "failed" /\ error = "CannotAutoGenerate")

C6_Witness ==
  /\ pc = "failed" /\ error = "CannotAutoGenerate"
  /\ Falsy(SuppliedCSS) /\ autogenCSS /\ Len(Designated) > 1
  /\ compileCalls = <<>> /\ layout = <<>>

\* C7: the compiler is called at most once, only without a compiled-output
\* block and with auto-derivation requested; its text is the single Section
\* of the designated source syntax (the first syntax when its block is
\* defined) and its syntax names the syntax of the variant the text is from.
C7_CompilesDesignatedSource ==
  /\ Len(compileCalls) <= 1
  /\ compileCalls # <<>> =>
       LET call == compileCalls[1]
       IN /\ Falsy(SuppliedCSS) /\ autogenCSS
          /\ (scssContents # Undefined =>
                Len(scssExamples) = 1 /\ call.text = scssExamples[1])
          /\ (call.syntax = "scss" =>
                Len(scssExamples) = 1 /\ call.text = scssExamples[1])
          /\ (call.syntax = "indented" =>
                Len(sassExamples) = 1 /\ call.text = sassExamples[1])

\* C8: when the compiler was called and returned the empty text, the css
\* SectionSet of the returned Layout is empty.
C8_EmptyOutputOmitted ==
  (Returned /\ compileCalls # <<>> /\ compileCalls[1].css = EmptyString) =>
    L.css = <<>>

\* C9: in a returned Layout splitLocation is non-null only when canSplit
\* holds, and null whenever canSplit does not hold.
C9_SplitLocationOnlyIfCanSplit ==
  Returned =>
    /\ (L.splitLocation # Null => L.canSplit)
    /\ (~L.canSplit => L.splitLocation = Null)

C9_Witness ==
  /\ Returned
  /\ L.css # <<>>
  /\ maxWidths.maxSourceWidth + maxWidths.maxCSSWidth >= 110
  /\ ~L.canSplit
  /\ L.splitLocation = Null

NonLast(v, i) == i < Len(v.s) - 1

\* the largest line count at index i among the variants that have a
\* section there which is not their last
InteriorMaxLines(i) ==
  SetMax({Len(w.s[i + 1]) : w \in {x \in Variants : NonLast(x, i)}})

\* C10: a section that is not the last of its variant has line count plus
\* padding equal to the largest line count, at its index, of the variants
\* that are not at their last section.
C10_InteriorAlignment ==
  Returned =>
    \A v \in Variants :
      \A i \in 0..(Len(v.s) - 2) :
        Len(v.s[i + 1]) + v.p[i + 1] = InteriorMaxLines(i)

C10_Witness ==
  /\ Returned
  /\ \E v \in Variants :
       \E i \in 0..(Len(v.s) - 2) :
         /\ v.p[i + 1] > 0
         /\ \E w \in Variants :
              NonLast(w, i) /\ Len(w.s[i + 1]) = Len(v.s[i + 1]) + v.p[i + 1]

====
